---- MODULE Spec2Model ----
(***************************************************************************)
(* Model of config/constructors.go of ocicrypt: the eight constructors     *)
(* that build a CryptoConfig for one key-management scheme.                *)
(*                                                                         *)
(* Go values are modelled as follows.                                      *)
(*   []byte            an opaque blob, an element of Blobs                 *)
(*   [][]byte          a slice [isnil, elems]: nil and empty both have     *)
(*                     length 0 but are different values                   *)
(*   map[string][][]byte  [isnil, kv]: kv is a function from the keys to   *)
(*                     slices; the zero value of the type is the nil map   *)
(*   *T                [isnil |-> TRUE] or [isnil |-> FALSE, val |-> v]    *)
(*   error             NoErr (nil) or the kind of the error returned       *)
(***************************************************************************)
EXTENDS Integers, Sequences, FiniteSets, TLC

\* Bounds of the model: number of distinct blobs, longest slice.
NumBlobs == 2
MaxLen == 2

Blobs == 1..NumBlobs

RECURSIVE SeqsUpTo(_)
SeqsUpTo(n) ==
  IF n = 0 THEN {<<>>}
  ELSE LET shorter == SeqsUpTo(n - 1)
       IN shorter \cup {Append(s, b) : s \in {t \in shorter : Len(t) = n - 1}, b \in Blobs}

\* The values a [][]byte argument can take.
NilSlice == [isnil |-> TRUE, elems |-> <<>>]
MakeSlice(s) == [isnil |-> FALSE, elems |-> s]
Slices == {NilSlice} \cup {MakeSlice(s) : s \in SeqsUpTo(MaxLen)}

\* Go's len() on a slice.
len(s) == Len(s.elems)

\* map[string][][]byte: the zero value (nil map) and a map literal.
NilMap == [isnil |-> TRUE, kv |-> <<>>]
MakeMap(f) == [isnil |-> FALSE, kv |-> f]
EmptyMap == MakeMap(<<>>)
Keys(m) == DOMAIN m.kv

\* Pointers.
NilPtr == [isnil |-> TRUE]
Ref(v) == [isnil |-> FALSE, val |-> v]

\* Errors: nil, and the two errors.New(...) of the file by their kind.
NoErr == "nil"
InvalidArgument == "InvalidArgument"
UnsupportedConfiguration == "UnsupportedConfiguration"

\* DecryptConfig{} and CryptoConfig{}: the zero values of the structs.
ZeroDecryptConfig == [Parameters |-> NilMap]
ZeroCryptoConfig == [EncryptConfig |-> NilPtr, DecryptConfig |-> NilPtr]

\* The composite literal every constructor returns on success:
\*   CryptoConfig{EncryptConfig: &EncryptConfig{Parameters: ep, DecryptConfig: dc},
\*                DecryptConfig: &dc}
MakeCryptoConfig(ep, dc) ==
  [EncryptConfig |-> Ref([Parameters |-> ep, DecryptConfig |-> dc]),
   DecryptConfig |-> Ref(dc)]

Ok(cc) == [cc |-> cc, err |-> NoErr]
Fail(e) == [cc |-> ZeroCryptoConfig, err |-> e]

----------------------------------------------------------------------------
(* Encrypt-scheme constructors *)

\* Mutant: the public keys are put into the decrypt configuration as well.
EncryptWithJwe_DcFilled(pubKeys) ==
  Ok(MakeCryptoConfig(MakeMap("pubkeys" :> pubKeys),
                      [Parameters |-> MakeMap("pubkeys" :> pubKeys)]))

EncryptWithJwe(pubKeys) ==
  LET dc == ZeroDecryptConfig
      ep == MakeMap("pubkeys" :> pubKeys)
  IN Ok(MakeCryptoConfig(ep, dc))

EncryptWithPkcs7(x509s) ==
  LET dc == ZeroDecryptConfig
      ep == MakeMap("x509s" :> x509s)
  IN Ok(MakeCryptoConfig(ep, dc))

EncryptWithGpg(gpgRecipients, gpgPubRingFile) ==
  LET dc == ZeroDecryptConfig
      ep == MakeMap(("gpg-recipients" :> gpgRecipients)
                    @@ ("gpg-pubkeyringfile" :> MakeSlice(<<gpgPubRingFile>>)))
  IN Ok(MakeCryptoConfig(ep, dc))

\* Mutant: the single-module check is made before the length check.
EncryptWithPkcs11_SingleFirst(modules, pins) ==
  IF len(modules) # 1 THEN Fail(UnsupportedConfiguration)
  ELSE IF len(modules) # len(pins) THEN Fail(InvalidArgument)
  ELSE Ok(MakeCryptoConfig(MakeMap(("modules" :> modules) @@ ("pins" :> pins)),
                           ZeroDecryptConfig))

\* Mutant: only more than one module is rejected, no module at all is accepted.
EncryptWithPkcs11_AtMostOne(modules, pins) ==
  IF len(modules) # len(pins) THEN Fail(InvalidArgument)
  ELSE IF len(modules) > 1 THEN Fail(UnsupportedConfiguration)
  ELSE Ok(MakeCryptoConfig(MakeMap(("modules" :> modules) @@ ("pins" :> pins)),
                           ZeroDecryptConfig))

\* Mutant: the two sequences are stored under each other's key.
EncryptWithPkcs11_KeysSwapped(modules, pins) ==
  IF len(modules) # len(pins) THEN Fail(InvalidArgument)
  ELSE IF len(modules) # 1 THEN Fail(UnsupportedConfiguration)
  ELSE Ok(MakeCryptoConfig(MakeMap(("modules" :> pins) @@ ("pins" :> modules)),
                           ZeroDecryptConfig))

\* Mutant: the error paths return the configuration built so far.
EncryptWithPkcs11_PartialOnError(modules, pins) ==
  LET built == MakeCryptoConfig(MakeMap(("modules" :> modules) @@ ("pins" :> pins)),
                                ZeroDecryptConfig)
  IN IF len(modules) # len(pins) THEN [cc |-> built, err |-> InvalidArgument]
     ELSE IF len(modules) # 1 THEN [cc |-> built, err |-> UnsupportedConfiguration]
     ELSE Ok(built)

EncryptWithPkcs11(modules, pins) ==
  IF len(modules) # len(pins) THEN Fail(InvalidArgument)
  ELSE IF len(modules) # 1 THEN Fail(UnsupportedConfiguration)
  ELSE LET dc == ZeroDecryptConfig
           ep == MakeMap(("modules" :> modules) @@ ("pins" :> pins))
       IN Ok(MakeCryptoConfig(ep, dc))

----------------------------------------------------------------------------
(* Decrypt-scheme constructors *)

\* Mutant: the length check is missing.
DecryptWithPrivKeys_NoCheck(privKeys, privKeysPasswords) ==
  Ok(MakeCryptoConfig(EmptyMap,
       [Parameters |-> MakeMap(("privkeys" :> privKeys)
                               @@ ("privkeys-passwords" :> privKeysPasswords))]))

DecryptWithPrivKeys(privKeys, privKeysPasswords) ==
  IF len(privKeys) # len(privKeysPasswords) THEN Fail(InvalidArgument)
  ELSE LET dc == [Parameters |-> MakeMap(("privkeys" :> privKeys)
                                         @@ ("privkeys-passwords" :> privKeysPasswords))]
           ep == EmptyMap
       IN Ok(MakeCryptoConfig(ep, dc))

\* Mutant: the encrypt configuration is given a zero DecryptConfig and a nil map.
DecryptWithX509s_EncZero(x509s) ==
  LET dc == [Parameters |-> MakeMap("x509s" :> x509s)]
  IN Ok([EncryptConfig |-> Ref([Parameters |-> NilMap, DecryptConfig |-> ZeroDecryptConfig]),
         DecryptConfig |-> Ref(dc)])

DecryptWithX509s(x509s) ==
  LET dc == [Parameters |-> MakeMap("x509s" :> x509s)]
      ep == EmptyMap
  IN Ok(MakeCryptoConfig(ep, dc))

DecryptWithGpgPrivKeys(gpgPrivKeys, gpgPrivKeysPwds) ==
  LET dc == [Parameters |-> MakeMap(("gpg-privatekeys" :> gpgPrivKeys)
                                    @@ ("gpg-privatekeys-passwords" :> gpgPrivKeysPwds))]
      ep == EmptyMap
  IN Ok(MakeCryptoConfig(ep, dc))

\* Mutant: the checks of EncryptWithPkcs11 are applied on the decrypt path too.
DecryptWithPkcs11_Checked(modules, pins) ==
  IF len(modules) # len(pins) THEN Fail(InvalidArgument)
  ELSE IF len(modules) # 1 THEN Fail(UnsupportedConfiguration)
  ELSE Ok(MakeCryptoConfig(EmptyMap,
            [Parameters |-> MakeMap(("modules" :> modules) @@ ("pins" :> pins))]))

DecryptWithPkcs11(modules, pins) ==
  LET dc == [Parameters |-> MakeMap(("modules" :> modules) @@ ("pins" :> pins))]
      ep == EmptyMap
  IN Ok(MakeCryptoConfig(ep, dc))

----------------------------------------------------------------------------
(* The state: the last constructor call and what it returned. *)

VARIABLES call, ret
vars == <<call, ret>>

Init ==
  /\ call = [fn |-> "none"]
  /\ ret = Ok(ZeroCryptoConfig)

CallEncryptWithJwe ==
  \E pubKeys \in Slices :
    /\ call' = [fn |-> "EncryptWithJwe", pubKeys |-> pubKeys]
    /\ ret' = EncryptWithJwe(pubKeys)

CallEncryptWithPkcs7 ==
  \E x509s \in Slices :
    /\ call' = [fn |-> "EncryptWithPkcs7", x509s |-> x509s]
    /\ ret' = EncryptWithPkcs7(x509s)

CallEncryptWithGpg ==
  \E gpgRecipients \in Slices, gpgPubRingFile \in Blobs :
    /\ call' = [fn |-> "EncryptWithGpg", gpgRecipients |-> gpgRecipients,
                gpgPubRingFile |-> gpgPubRingFile]
    /\ ret' = EncryptWithGpg(gpgRecipients, gpgPubRingFile)

CallEncryptWithPkcs11 ==
  \E modules \in Slices, pins \in Slices :
    /\ call' = [fn |-> "EncryptWithPkcs11", modules |-> modules, pins |-> pins]
    /\ ret' = EncryptWithPkcs11(modules, pins)

CallDecryptWithPrivKeys ==
  \E privKeys \in Slices, privKeysPasswords \in Slices :
    /\ call' = [fn |-> "DecryptWithPrivKeys", privKeys |-> privKeys,
                privKeysPasswords |-> privKeysPasswords]
    /\ ret' = DecryptWithPrivKeys(privKeys, privKeysPasswords)

CallDecryptWithX509s ==
  \E x509s \in Slices :
    /\ call' = [fn |-> "DecryptWithX509s", x509s |-> x509s]
    /\ ret' = DecryptWithX509s(x509s)

CallDecryptWithGpgPrivKeys ==
  \E gpgPrivKeys \in Slices, gpgPrivKeysPwds \in Slices :
    /\ call' = [fn |-> "DecryptWithGpgPrivKeys", gpgPrivKeys |-> gpgPrivKeys,
                gpgPrivKeysPwds |-> gpgPrivKeysPwds]
    /\ ret' = DecryptWithGpgPrivKeys(gpgPrivKeys, gpgPrivKeysPwds)

CallDecryptWithPkcs11 ==
  \E modules \in Slices, pins \in Slices :
    /\ call' = [fn |-> "DecryptWithPkcs11", modules |-> modules, pins |-> pins]
    /\ ret' = DecryptWithPkcs11(modules, pins)

Next ==
  \/ CallEncryptWithJwe
  \/ CallEncryptWithPkcs7
  \/ CallEncryptWithGpg
  \/ CallEncryptWithPkcs11
  \/ CallDecryptWithPrivKeys
  \/ CallDecryptWithX509s
  \/ CallDecryptWithGpgPrivKeys
  \/ CallDecryptWithPkcs11

Spec == Init /\ [][Next]_vars

----------------------------------------------------------------------------
(* Observations on the returned value *)

Called(f) == call.fn = f
Succeeded == call.fn # "none" /\ ret.err = NoErr
Failed == call.fn # "none" /\ ret.err # NoErr

EncryptFns == {"EncryptWithJwe", "EncryptWithPkcs7", "EncryptWithGpg", "EncryptWithPkcs11"}
DecryptFns == {"DecryptWithPrivKeys", "DecryptWithX509s", "DecryptWithGpgPrivKeys",
               "DecryptWithPkcs11"}

\* ret.cc.EncryptConfig.Parameters, ret.cc.EncryptConfig.DecryptConfig.Parameters,
\* ret.cc.DecryptConfig.Parameters (of a successful result)
EncParams == ret.cc.EncryptConfig.val.Parameters
EncDecParams == ret.cc.EncryptConfig.val.DecryptConfig.Parameters
DecParams == ret.cc.DecryptConfig.val.Parameters

\* A parameter map holds no parameters: nil or without keys.
NoParams(m) == m.isnil \/ Keys(m) = {}

\* The parameter sets contained in the returned configuration.
ParamSets ==
  (IF ret.cc.EncryptConfig.isnil THEN {} ELSE {EncParams, EncDecParams})
  \cup (IF ret.cc.DecryptConfig.isnil THEN {} ELSE {DecParams})

\* m holds both keys and their sequences differ in length.
Unpaired(m, k1, k2) ==
  /\ ~m.isnil
  /\ {k1, k2} \subseteq Keys(m)
  /\ len(m.kv[k1]) # len(m.kv[k2])

----------------------------------------------------------------------------
(* The parameter map each scheme is expected to build from the arguments. *)

ExpectedEncParams ==
  CASE Called("EncryptWithJwe") -> "pubkeys" :> call.pubKeys
    [] Called("EncryptWithPkcs7") -> "x509s" :> call.x509s
    [] Called("EncryptWithGpg") ->
         ("gpg-recipients" :> call.gpgRecipients)
         @@ ("gpg-pubkeyringfile" :> MakeSlice(<<call.gpgPubRingFile>>))
    [] Called("EncryptWithPkcs11") ->
         ("modules" :> call.modules) @@ ("pins" :> call.pins)

ExpectedDecParams ==
  CASE Called("DecryptWithPrivKeys") ->
         ("privkeys" :> call.privKeys) @@ ("privkeys-passwords" :> call.privKeysPasswords)
    [] Called("DecryptWithX509s") -> "x509s" :> call.x509s
    [] Called("DecryptWithGpgPrivKeys") ->
         ("gpg-privatekeys" :> call.gpgPrivKeys)
         @@ ("gpg-privatekeys-passwords" :> call.gpgPrivKeysPwds)
    [] Called("DecryptWithPkcs11") ->
         ("modules" :> call.modules) @@ ("pins" :> call.pins)

\* m is a present map with exactly the keys and values of f.
HoldsExactly(m, f) ==
  /\ ~m.isnil
  /\ Keys(m) = DOMAIN f
  /\ \A k \in DOMAIN f : m.kv[k] = f[k]

----------------------------------------------------------------------------
(* Claims *)

\* C1: EncryptWithPkcs11 called with module and pin sequences of unequal
\* length fails with InvalidArgument whatever the two sizes are; the length
\* check comes before the single-module check.
C1_LengthMismatchInvalidArgument ==
  (Called("EncryptWithPkcs11") /\ len(call.modules) # len(call.pins))
    => ret.err = InvalidArgument

\* EncryptWithPkcs11([mod1, mod2], [pin1]) has been called.
C1_Witness ==
  /\ Called("EncryptWithPkcs11")
  /\ len(call.modules) = 2
  /\ len(call.pins) = 1
  /\ ret.err = InvalidArgument

\* C2: EncryptWithPkcs11 called with equal-length sequences whose size is
\* not 1 (0, or 2 and more) fails with UnsupportedConfiguration and returns
\* the zero CryptoConfig.
C2_NotSingleModuleUnsupported ==
  (Called("EncryptWithPkcs11") /\ len(call.modules) = len(call.pins)
     /\ len(call.modules) # 1)
    => (ret.err = UnsupportedConfiguration /\ ret.cc = ZeroCryptoConfig)

\* EncryptWithPkcs11 was refused an empty, non-nil pair of sequences.
C2_Witness ==
  /\ Called("EncryptWithPkcs11")
  /\ len(call.modules) = 0
  /\ len(call.pins) = 0
  /\ ~call.modules.isnil
  /\ ret.err = UnsupportedConfiguration

\* C3: EncryptWithPkcs11 called with exactly one module and one pin succeeds
\* and EncryptConfig.Parameters maps "modules" and "pins", and nothing else,
\* to the two argument sequences unchanged.
C3_SingleModuleStored ==
  (Called("EncryptWithPkcs11") /\ len(call.modules) = 1 /\ len(call.pins) = 1)
    => /\ ret.err = NoErr
       /\ ~ret.cc.EncryptConfig.isnil
       /\ ~EncParams.isnil
       /\ Keys(EncParams) = {"modules", "pins"}
       /\ EncParams.kv["modules"] = call.modules
       /\ EncParams.kv["pins"] = call.pins

\* One module and one pin that are different blobs were stored.
C3_Witness ==
  /\ Called("EncryptWithPkcs11")
  /\ len(call.modules) = 1
  /\ len(call.pins) = 1
  /\ call.modules.elems[1] # call.pins.elems[1]
  /\ ret.err = NoErr

\* C4: DecryptWithPrivKeys fails with InvalidArgument when the key and the
\* password sequences differ in length; otherwise (both empty included) it
\* succeeds and DecryptConfig.Parameters holds "privkeys" and
\* "privkeys-passwords" equal to the two arguments.
C4_PrivKeysPairing ==
  Called("DecryptWithPrivKeys") =>
    IF len(call.privKeys) # len(call.privKeysPasswords)
    THEN ret.err = InvalidArgument
    ELSE /\ ret.err = NoErr
         /\ ~ret.cc.DecryptConfig.isnil
         /\ ~DecParams.isnil
         /\ Keys(DecParams) = {"privkeys", "privkeys-passwords"}
         /\ DecParams.kv["privkeys"] = call.privKeys
         /\ DecParams.kv["privkeys-passwords"] = call.privKeysPasswords

\* Two keys with two passwords were accepted.
C4_Witness ==
  /\ Called("DecryptWithPrivKeys")
  /\ len(call.privKeys) = 2
  /\ len(call.privKeysPasswords) = 2
  /\ ret.err = NoErr

\* C5: in every parameter set of a configuration returned successfully by
\* any constructor, "modules" and "pins" have equal length whenever both are
\* held, and so have "privkeys" and "privkeys-passwords".
C5_PairedSequencesEqualLength ==
  Succeeded =>
    \A m \in ParamSets :
      /\ ~Unpaired(m, "modules", "pins")
      /\ ~Unpaired(m, "privkeys", "privkeys-passwords")

\* C6 as stated: after a successful decrypt-scheme constructor the
\* DecryptConfig holds exactly the scheme's parameters, and the encrypt
\* configuration is empty: EncryptConfig.Parameters is a present empty map
\* and the DecryptConfig that EncryptConfig references has no parameters
\* either.
C6_EncryptSideCarriesNothing ==
  (call.fn \in DecryptFns /\ Succeeded) =>
    /\ HoldsExactly(DecParams, ExpectedDecParams)
    /\ EncParams = EmptyMap
    /\ NoParams(EncDecParams)

\* C6 (amended): after a successful decrypt-scheme constructor the
\* DecryptConfig holds exactly the scheme's parameters and
\* EncryptConfig.Parameters is a present empty map; the DecryptConfig that
\* EncryptConfig references is a copy of the aggregate's DecryptConfig and
\* so holds the same scheme parameters.
C6_DecryptSchemeResult ==
  (call.fn \in DecryptFns /\ Succeeded) =>
    /\ HoldsExactly(DecParams, ExpectedDecParams)
    /\ EncParams = EmptyMap
    /\ ret.cc.EncryptConfig.val.DecryptConfig = ret.cc.DecryptConfig.val
    /\ HoldsExactly(EncDecParams, ExpectedDecParams)

\* DecryptWithX509s([cert1]) has returned.
C6_Witness ==
  /\ Called("DecryptWithX509s")
  /\ len(call.x509s) = 1
  /\ ret.err = NoErr
  /\ DecParams.kv["x509s"] = call.x509s

\* C7: after a successful encrypt-scheme constructor EncryptConfig.Parameters
\* holds exactly the scheme's keys with the argument sequences in order (the
\* GPG keyring as a one-element sequence), and neither the aggregate's
\* DecryptConfig nor the one referenced by EncryptConfig has parameters.
C7_EncryptSchemeResult ==
  (call.fn \in EncryptFns /\ Succeeded) =>
    /\ HoldsExactly(EncParams, ExpectedEncParams)
    /\ NoParams(DecParams)
    /\ NoParams(EncDecParams)

\* EncryptWithJwe([key1, key2]) with two different keys has returned.
C7_Witness ==
  /\ Called("EncryptWithJwe")
  /\ len(call.pubKeys) = 2
  /\ call.pubKeys.elems[1] # call.pubKeys.elems[2]
  /\ ret.err = NoErr
  /\ EncParams.kv["pubkeys"] = call.pubKeys

\* C8: a constructor that fails returns a CryptoConfig with neither an
\* EncryptConfig nor a DecryptConfig, hence without any parameter set; a
\* constructor that succeeds returns both.
C8_NoPartialConstruction ==
  /\ Failed =>
       /\ ret.cc.EncryptConfig.isnil
       /\ ret.cc.DecryptConfig.isnil
       /\ ParamSets = {}
  /\ Succeeded =>
       /\ ~ret.cc.EncryptConfig.isnil
       /\ ~ret.cc.DecryptConfig.isnil

\* EncryptWithPkcs11 failed on arguments that hold blobs.
C8_Witness ==
  /\ Called("EncryptWithPkcs11")
  /\ len(call.modules) = 2
  /\ len(call.pins) = 2
  /\ Failed

\* C9: DecryptWithPkcs11, DecryptWithGpgPrivKeys and DecryptWithX509s accept
\* every input (unequal lengths, empty sequences, several modules) and store
\* the argument sequences unchanged under their scheme's keys.
C9_DecryptNoValidation ==
  call.fn \in {"DecryptWithPkcs11", "DecryptWithGpgPrivKeys", "DecryptWithX509s"} =>
    /\ ret.err = NoErr
    /\ ~ret.cc.DecryptConfig.isnil
    /\ HoldsExactly(DecParams, ExpectedDecParams)

\* DecryptWithPkcs11 accepted two modules with a single pin.
C9_Witness ==
  /\ Called("DecryptWithPkcs11")
  /\ len(call.modules) = 2
  /\ len(call.pins) = 1
  /\ ret.err = NoErr
  /\ DecParams.kv["modules"] = call.modules

====
